---- MODULE Spec2Model ----
(***************************************************************************)
(* Registration / capacity / waitlist / check-in core of gather-app, as    *)
(* implemented by the Express router in src/unnamed/part_002 (second       *)
(* router of the file, lines 323-928).  The first router of the file       *)
(* (lines 1-321) is the earlier version of the same routes; its writers    *)
(* are the Legacy* actions, which only SpecDashboard takes.                *)
(*                                                                         *)
(* The database is the single sql.js handle; every handler starts with     *)
(* `await getDb()` and then runs synchronously up to its next await.  The  *)
(* only handler with a second await is register (QRCode.toDataURL between  *)
(* its checks and its write), so register is two steps, RegisterBegin and  *)
(* RegisterFinish, in every specification, and every other handler is one  *)
(* step.  Nothing serialises requests: any request may be served while a   *)
(* register is suspended.                                                  *)
(*                                                                         *)
(* Identifiers: uuids are opaque and fresh, so an attendee / waitlist /    *)
(* event id is modelled by the row's insertion number (its rowid).         *)
(* cancel_token is 16 random bytes, fresh per attendee: modelled by the    *)
(* attendee's id; token 0 is a token that was never issued.  A row of the  *)
(* first router has no token (NULL), which a cancel_token of JSON null     *)
(* equals under !==.                                                       *)
(***************************************************************************)
EXTENDS Integers, FiniteSets, Sequences, Bags, TLC

VARIABLES events, attendees, waitlist, inflight, now, nextEvent, nextAttendee, nextWaitlist

vars == <<events, attendees, waitlist, inflight, now, nextEvent, nextAttendee, nextWaitlist>>

\* ---------------------------------------------------------------- bounds
MaxEvents == 2
MaxAttendees == 2
MaxWaitlist == 2
MaxInFlight == 2
MaxTime == 1
MaxCapacity == 1

\* ------------------------------------------------------------- constants
DefaultCapacity == 50

EventIds == 1..MaxEvents
AttendeeIds == 1..MaxAttendees
WaitlistIds == 1..MaxWaitlist
Names == {"n1", "n2"}
Emails == {"a@x", "b@x"}
Users == {"u1", "u2"}
NoUser == "anonymous"
\* SQL NULL (checked_in_at of a row that was never checked in); timestamps are >= 0.
Null == 0 - 1
Statuses == {"draft", "published", "cancelled"}

\* A slot of the events table that holds no row.
NoEvent == [capacity |-> 0, status |-> "none", user_id |-> NoUser]

EventExists(slug) == slug \in EventIds /\ events[slug].status # "none"

\* ------------------------------------------------------------ pure parts

\* JSON.stringify({ attendeeId, eventId, name, email }) rendered as a QR image:
\* an injective encoding of the four fields.
QrPayload(id, eventId, name, email) ==
  [attendeeId |-> id, eventId |-> eventId, name |-> name, email |-> email]

\* SELECT COUNT(*) FROM attendees WHERE event_id = ? AND cancelled = 0
ActiveCount(atts, eventId) ==
  Cardinality({a \in atts : a.event_id = eventId /\ ~a.cancelled})

\* SELECT id, cancelled FROM attendees WHERE event_id = ? AND email = ?
DupRows(atts, eventId, email) ==
  {a \in atts : a.event_id = eventId /\ a.email = email}

\* dupStmt.step(): the first row of the scan, i.e. the lowest rowid.
FirstRow(rows) == CHOOSE a \in rows : \A b \in rows : a.id <= b.id

IsFullOffByOne(count, capacity) == count > capacity

\* if (count >= event.capacity)
IsFull(count, capacity) == count >= capacity

\* Column defaults of the attendees table for the columns the INSERT of register
\* does not name: checked_in 0, checked_in_at NULL, cancelled 0.
AttendeeDefaults == [checked_in |-> FALSE, checked_in_at |-> Null, cancelled |-> FALSE]

\* INSERT INTO attendees (id, event_id, name, email, qr_code, cancel_token)
NewAttendee(id, eventId, name, email) ==
  [id |-> id, event_id |-> eventId, name |-> name, email |-> email,
   qr_code |-> QrPayload(id, eventId, name, email), cancel_token |-> id,
   checked_in |-> AttendeeDefaults.checked_in,
   checked_in_at |-> AttendeeDefaults.checked_in_at,
   cancelled |-> AttendeeDefaults.cancelled]

ReactivateNewToken(a, name) ==
  [a EXCEPT !.cancelled = FALSE, !.name = name, !.checked_in = FALSE,
            !.qr_code = QrPayload(a.id, a.event_id, name, a.email), !.cancel_token = 0]

\* UPDATE attendees SET cancelled = 0, name = ?, qr_code = ?, checked_in = 0 WHERE id = ?
\* (checked_in_at and cancel_token are not among the assigned columns)
Reactivate(a, name) ==
  [a EXCEPT !.cancelled = FALSE, !.name = name, !.checked_in = FALSE,
            !.qr_code = QrPayload(a.id, a.event_id, name, a.email)]

IsUnavailableCancelledOnly(status) == status = "cancelled"

\* if (event.status === 'cancelled') -> 400; if (event.status === 'draft') -> 400
IsUnavailable(status) == status \in {"cancelled", "draft"}

RegisterCheckCapacityFirst(slug, name, email) ==
  IF ~EventExists(slug) THEN [result |-> "NotFound"]
  ELSE IF events[slug].status \in {"cancelled", "draft"} THEN [result |-> "EventUnavailable"]
  ELSE LET rows == DupRows(attendees, slug, email) IN
    IF rows # {} /\ ~FirstRow(rows).cancelled THEN [result |-> "DuplicateRegistration"]
    ELSE IF ActiveCount(attendees, slug) >= events[slug].capacity
      THEN [result |-> "CapacityExceeded"]
    ELSE [result |-> "suspend",
          req |-> [kind |-> IF rows # {} THEN "reactivate" ELSE "insert",
                   id |-> IF rows # {} THEN FirstRow(rows).id ELSE 0, event_id |-> slug,
                   capacity |-> events[slug].capacity, name |-> name, email |-> email]]

\* The checks of the register handler, up to its `await QRCode.toDataURL(...)`:
\* the response it sends, or "suspend" with the locals the rest of the handler uses.
RegisterCheck(slug, name, email) ==
  IF ~EventExists(slug) THEN [result |-> "NotFound"]
  ELSE IF IsUnavailable(events[slug].status) THEN [result |-> "EventUnavailable"]
  ELSE LET rows == DupRows(attendees, slug, email) IN
    IF rows # {} THEN
      IF ~FirstRow(rows).cancelled THEN [result |-> "DuplicateRegistration"]
      ELSE [result |-> "suspend",
            req |-> [kind |-> "reactivate", id |-> FirstRow(rows).id, event_id |-> slug,
                     capacity |-> events[slug].capacity,
                     name |-> name, email |-> email]]
    ELSE LET count == ActiveCount(attendees, slug) IN
      IF IsFull(count, events[slug].capacity) THEN [result |-> "CapacityExceeded"]
      ELSE [result |-> "suspend",
            req |-> [kind |-> "insert", id |-> 0, event_id |-> slug,
                     capacity |-> events[slug].capacity,
                     name |-> name, email |-> email]]

\* The write of the register handler after the await: the attendees table it leaves.
RegisterWrite(atts, r, newId) ==
  IF r.kind = "reactivate"
  THEN {IF a.id = r.id THEN Reactivate(a, r.name) ELSE a : a \in atts}
  ELSE atts \cup {NewAttendee(newId, r.event_id, r.name, r.email)}

\* The checks of a suspended register give, in the state it resumes in, what they
\* gave when it ran them: the handler writes as if it had run without a break.  A
\* register that no other request overlaps always resumes so.
ChecksStillHold(r) ==
  RegisterCheck(r.event_id, r.name, r.email) = [result |-> "suspend", req |-> r]

\* ------------------------------------------------- first router: register

\* INSERT INTO attendees (id, event_id, name, email, qr_code): no cancel_token (NULL);
\* checked_in, checked_in_at and cancelled take the column defaults.
NewLegacyAttendee(id, eventId, name, email) ==
  [id |-> id, event_id |-> eventId, name |-> name, email |-> email,
   qr_code |-> QrPayload(id, eventId, name, email), cancel_token |-> Null,
   checked_in |-> AttendeeDefaults.checked_in,
   checked_in_at |-> AttendeeDefaults.checked_in_at,
   cancelled |-> AttendeeDefaults.cancelled]

\* The checks of the first router's register, up to its `await QRCode.toDataURL(...)`:
\* no status test, 409 for every row of the (event, email), cancelled or not, and
\* SELECT COUNT(*) FROM attendees WHERE event_id = ? over cancelled rows too.
LegacyRegisterCheck(slug, name, email) ==
  IF ~EventExists(slug) THEN [result |-> "NotFound"]
  ELSE IF DupRows(attendees, slug, email) # {} THEN [result |-> "DuplicateRegistration"]
  ELSE IF Cardinality({a \in attendees : a.event_id = slug}) >= events[slug].capacity
    THEN [result |-> "CapacityExceeded"]
  ELSE [result |-> "suspend",
        req |-> [kind |-> "legacy", id |-> 0, event_id |-> slug,
                 capacity |-> events[slug].capacity, name |-> name, email |-> email]]

\* ------------------------------------------------------------- cancel

AttendeeById(atts, id) == CHOOSE a \in atts : a.id = id

HasAttendee(atts, id) == \E a \in atts : a.id = id

TokenMatchesAlways(stored, given) == TRUE

\* if (attendee.cancel_token !== cancel_token) -> 403
TokenMatches(stored, given) == stored = given

MarkCancelledUncheck(atts, id) ==
  {IF a.id = id THEN [a EXCEPT !.cancelled = TRUE, !.checked_in = FALSE] ELSE a : a \in atts}

MarkCancelledRemove(atts, id) == {a \in atts : a.id # id}

\* UPDATE attendees SET cancelled = 1 WHERE id = ?
MarkCancelled(atts, id) ==
  {IF a.id = id THEN [a EXCEPT !.cancelled = TRUE] ELSE a : a \in atts}

NextInLineNone(ws, eventId) == {}

NextInLineAny(ws, eventId) ==
  {w \in ws : w.event_id = eventId /\ ~w.notified}

NextInLineNewest(ws, eventId) ==
  {w \in ws : /\ w.event_id = eventId /\ ~w.notified
              /\ \A v \in ws : (v.event_id = eventId /\ ~v.notified)
                                 => v.created_at <= w.created_at}

\* SELECT * FROM waitlist WHERE event_id = ? AND notified = 0
\*   ORDER BY created_at ASC LIMIT 1
\* The rows the statement may return: SQL leaves the order of rows with equal
\* created_at open, so each of them is a possible first row.
NextInLine(ws, eventId) ==
  {w \in ws : /\ w.event_id = eventId /\ ~w.notified
              /\ \A v \in ws : (v.event_id = eventId /\ ~v.notified)
                                 => w.created_at <= v.created_at}

MarkNotifiedRemove(ws, id) == {w \in ws : w.id # id}

\* UPDATE waitlist SET notified = 1 WHERE id = ?
MarkNotified(ws, id) ==
  {IF w.id = id THEN [w EXCEPT !.notified = TRUE] ELSE w : w \in ws}

\* The response of the cancel handler.
CancelResult(id, token) ==
  IF ~HasAttendee(attendees, id) THEN "NotFound"
  ELSE IF ~TokenMatches(AttendeeById(attendees, id).cancel_token, token) THEN "InvalidToken"
  ELSE "ok"

\* The answer of the cancel handler: its checks, then its one try/catch around the
\* UPDATE and the promotion block alike (catch (err) -> 500 'Failed to cancel').
CancelAnswer(id, token, promotionThrew) ==
  IF CancelResult(id, token) # "ok" THEN CancelResult(id, token)
  ELSE IF promotionThrew THEN "InternalError"
  ELSE "ok"

\* ----------------------------------------------------------- check-in

CheckedInNoTime(a, t) ==
  IF a.checked_in THEN a ELSE [a EXCEPT !.checked_in = TRUE]

\* if (attendee.checked_in) return 'Already checked in'
\* UPDATE attendees SET checked_in = 1, checked_in_at = ? WHERE id = ?
CheckedIn(a, t) ==
  IF a.checked_in THEN a ELSE [a EXCEPT !.checked_in = TRUE, !.checked_in_at = t]

CheckInResultRejectsCancelled(id) ==
  IF ~HasAttendee(attendees, id) THEN "NotFound"
  ELSE IF AttendeeById(attendees, id).cancelled THEN "RsvpCancelled"
  ELSE "ok"

\* The manual handler: SELECT * FROM attendees WHERE id = ?
CheckInResult(id) ==
  IF ~HasAttendee(attendees, id) THEN "NotFound" ELSE "ok"

PayloadKinds == {"garbage", "null", "scalar", "object"}

\* The qrData strings a scanner can post: text JSON.parse rejects, the JSON text
\* null, a JSON scalar, and a JSON object whose attendeeId may be missing (0).
Payloads ==
  {[kind |-> k, attendeeId |-> 0, eventId |-> 0] : k \in PayloadKinds \ {"object"}}
    \cup [kind : {"object"}, attendeeId : 0..MaxAttendees, eventId : 0..MaxEvents]

\* SELECT a.*, e.title FROM attendees a JOIN events e ON a.event_id = e.id WHERE a.id = ?
QrRow(atts, id) == {a \in atts : a.id = id /\ EventExists(a.event_id)}

\* if (attendee.cancelled) -> 400 'This RSVP has been cancelled'
QrCancelled(a) == a.cancelled

QrResultChecksEvent(p) ==
  IF p.kind = "garbage" THEN "InvalidPayload"
  ELSE IF p.kind = "null" THEN "InternalError"
  ELSE IF p.kind = "scalar" \/ p.attendeeId = 0 THEN "InvalidPayload"
  ELSE IF QrRow(attendees, p.attendeeId) = {} THEN "NotFound"
  ELSE IF AttendeeById(attendees, p.attendeeId).event_id # p.eventId THEN "InvalidPayload"
  ELSE IF QrCancelled(AttendeeById(attendees, p.attendeeId)) THEN "RsvpCancelled"
  ELSE "ok"

\* The response of the QR handler.
QrResult(p) ==
  IF p.kind = "garbage" THEN "InvalidPayload"
  ELSE IF p.kind = "null" THEN "InternalError"
  ELSE IF p.kind = "scalar" \/ p.attendeeId = 0 THEN "InvalidPayload"
  ELSE IF QrRow(attendees, p.attendeeId) = {} THEN "NotFound"
  ELSE IF QrCancelled(AttendeeById(attendees, p.attendeeId)) THEN "RsvpCancelled"
  ELSE "ok"

\* ------------------------------------------------- first router: check-in

\* if (attendee.checked_in) return 'Already checked in'
\* UPDATE attendees SET checked_in = 1 WHERE id = ?   (no checked_in_at)
LegacyCheckedIn(a) ==
  IF a.checked_in THEN a ELSE [a EXCEPT !.checked_in = TRUE]

\* The response of the first router's QR handler: as QrResult without the test of
\* the cancelled flag.
LegacyQrResult(p) ==
  IF p.kind = "garbage" THEN "InvalidPayload"
  ELSE IF p.kind = "null" THEN "InternalError"
  ELSE IF p.kind = "scalar" \/ p.attendeeId = 0 THEN "InvalidPayload"
  ELSE IF QrRow(attendees, p.attendeeId) = {} THEN "NotFound"
  ELSE "ok"

\* ------------------------------------------------------------ waitlist

\* Column defaults of the waitlist table for the columns the INSERT of the waitlist
\* handler does not name: notified 0, created_at the time of the insert.
WaitlistDefaults(t) == [notified |-> FALSE, created_at |-> t]

\* INSERT INTO waitlist (id, event_id, name, email)
\* (the name column is stored and never read by any handler: it is left out)
NewWaitlistEntry(id, eventId, email, t) ==
  [id |-> id, event_id |-> eventId, email |-> email,
   notified |-> WaitlistDefaults(t).notified, created_at |-> WaitlistDefaults(t).created_at]

PositionStrict(ws, eventId, w) ==
  Cardinality({v \in ws : v.event_id = eventId /\ v.created_at < w.created_at})

\* SELECT COUNT(*) FROM waitlist WHERE event_id = ?
\*   AND created_at <= (SELECT created_at FROM waitlist WHERE id = ?)
Position(ws, eventId, w) ==
  Cardinality({v \in ws : v.event_id = eventId /\ v.created_at <= w.created_at})

WaitlistResultWhenFull(slug, email) ==
  IF ~EventExists(slug) THEN "NotFound"
  ELSE IF \E w \in waitlist : w.event_id = slug /\ w.email = email THEN "AlreadyWaitlisted"
  ELSE IF ActiveCount(attendees, slug) < events[slug].capacity THEN "NotFull"
  ELSE "ok"

WaitlistResultNoDupCheck(slug, email) ==
  IF ~EventExists(slug) THEN "NotFound" ELSE "ok"

\* The response of the waitlist handler before its insert.
WaitlistResult(slug, email) ==
  IF ~EventExists(slug) THEN "NotFound"
  ELSE IF \E w \in waitlist : w.event_id = slug /\ w.email = email THEN "AlreadyWaitlisted"
  ELSE "ok"

\* ----------------------------------------------------------- dashboard

\* SELECT id, name, email, checked_in, checked_in_at, cancelled, created_at
\*   FROM attendees WHERE event_id = ?
\* (the rows as a set: their order, by created_at, is not modelled)
DashboardRows(atts, eventId) ==
  {[id |-> a.id, name |-> a.name, email |-> a.email, checked_in |-> a.checked_in,
    checked_in_at |-> a.checked_in_at, cancelled |-> a.cancelled] :
      a \in {x \in atts : x.event_id = eventId}}

DashboardActiveAll(rows) == rows

\* attendees.filter(a => !a.cancelled)
DashboardActive(rows) == {a \in rows : ~a.cancelled}

\* checkedIn.map(a => a.checked_in_at).filter(Boolean): the timestamps as a bag (one
\* copy per row that has one; the order of the list is not modelled).
CheckinTimes(checkedIn) ==
  LET times == {r.checked_in_at : r \in {x \in checkedIn : x.checked_in_at # Null}}
  IN  [t \in times |-> Cardinality({r \in checkedIn : r.checked_in_at = t})]

\* SELECT COUNT(*) as wl FROM waitlist WHERE event_id = ?
WaitlistCount(ws, eventId) == Cardinality({w \in ws : w.event_id = eventId})

\* The body of the dashboard's answer: attendees, total, checked_in, waitlist_count,
\* checkin_times.
Dashboard(slug) ==
  LET active == DashboardActive(DashboardRows(attendees, slug))
      checkedIn == {a \in active : a.checked_in}
  IN  [attendees |-> active, total |-> Cardinality(active),
       checked_in |-> Cardinality(checkedIn),
       waitlist_count |-> WaitlistCount(waitlist, slug),
       checkin_times |-> CheckinTimes(checkedIn)]

\* requireAuth, the event lookup, then
\* if (event.user_id && event.user_id !== req.session.user.id) -> 403
DashboardResult(slug, user) ==
  IF user = NoUser THEN "Unauthorized"
  ELSE IF ~EventExists(slug) THEN "NotFound"
  ELSE IF events[slug].user_id # NoUser /\ events[slug].user_id # user THEN "Forbidden"
  ELSE "ok"

\* -------------------------------------------------------------- events

\* The status a register reads on an event row written without a status (the first
\* router's INSERT names no status column): neither cancelled nor draft.
LegacyStatus == "published"

\* capacity || 50
CapacityOrDefault(capacity) == IF capacity = 0 THEN DefaultCapacity ELSE capacity

\* status || 'published'
StatusOrDefault(status) == IF status = "" THEN "published" ELSE status

\* requireAuth, then if (event.user_id !== req.session.user.id) -> 403
OwnerResult(slug, user) ==
  IF user = NoUser THEN "Unauthorized"
  ELSE IF ~EventExists(slug) THEN "NotFound"
  ELSE IF events[slug].user_id # user THEN "Forbidden"
  ELSE "ok"

\* ---------------------------------------------------------------- actions

Init ==
  /\ events = [e \in EventIds |-> NoEvent]
  /\ attendees = {}
  /\ waitlist = {}
  /\ inflight = EmptyBag
  /\ now = 0
  /\ nextEvent = 1
  /\ nextAttendee = 1
  /\ nextWaitlist = 1

\* new Date() / datetime('now') advance between requests.
Tick ==
  /\ now < MaxTime
  /\ now' = now + 1
  /\ UNCHANGED <<events, attendees, waitlist, inflight, nextEvent, nextAttendee, nextWaitlist>>

\* POST /events/:slug/register, from the request to the await of the QR image.
\* An error response changes nothing; otherwise the handler is suspended with its
\* locals.
RegisterBegin(slug, name, email) ==
  /\ BagCardinality(inflight) < MaxInFlight
  /\ LET o == RegisterCheck(slug, name, email) IN
       IF o.result = "suspend"
       THEN /\ o.req.kind = "insert" => nextAttendee + BagCardinality(inflight) <= MaxAttendees
            /\ inflight' = inflight (+) SetToBag({o.req})
       ELSE inflight' = inflight
  /\ UNCHANGED <<events, attendees, waitlist, now, nextEvent, nextAttendee, nextWaitlist>>

\* POST /events/:slug/register, from the resolved QR image to the response.
RegisterFinish(r) ==
  /\ r \in BagToSet(inflight)
  /\ r.kind \in {"insert", "reactivate"}
  /\ inflight' = inflight (-) SetToBag({r})
  /\ attendees' = RegisterWrite(attendees, r, nextAttendee)
  /\ nextAttendee' = IF r.kind = "insert" THEN nextAttendee + 1 ELSE nextAttendee
  /\ UNCHANGED <<events, waitlist, now, nextEvent, nextWaitlist>>

\* POST /events/:slug/register of the first router, from the request to the await
\* of the QR image.
LegacyRegisterBegin(slug, name, email) ==
  /\ BagCardinality(inflight) < MaxInFlight
  /\ LET o == LegacyRegisterCheck(slug, name, email) IN
       IF o.result = "suspend"
       THEN /\ nextAttendee + BagCardinality(inflight) <= MaxAttendees
            /\ inflight' = inflight (+) SetToBag({o.req})
       ELSE inflight' = inflight
  /\ UNCHANGED <<events, attendees, waitlist, now, nextEvent, nextAttendee, nextWaitlist>>

\* POST /events/:slug/register of the first router, from the resolved QR image to
\* the response.
LegacyRegisterFinish(r) ==
  /\ r \in BagToSet(inflight)
  /\ r.kind = "legacy"
  /\ inflight' = inflight (-) SetToBag({r})
  /\ attendees' = attendees \cup {NewLegacyAttendee(nextAttendee, r.event_id, r.name, r.email)}
  /\ nextAttendee' = nextAttendee + 1
  /\ UNCHANGED <<events, waitlist, now, nextEvent, nextWaitlist>>

\* POST /attendees/:id/checkin of the first router
LegacyCheckIn(id) ==
  /\ IF HasAttendee(attendees, id)
     THEN attendees' = {IF a.id = id THEN LegacyCheckedIn(a) ELSE a : a \in attendees}
     ELSE attendees' = attendees
  /\ UNCHANGED <<events, waitlist, inflight, now, nextEvent, nextAttendee, nextWaitlist>>

\* POST /checkin/qr of the first router
LegacyCheckInQr(p) ==
  /\ IF LegacyQrResult(p) = "ok"
     THEN attendees' = {IF a.id = p.attendeeId THEN LegacyCheckedIn(a) ELSE a : a \in attendees}
     ELSE attendees' = attendees
  /\ UNCHANGED <<events, waitlist, inflight, now, nextEvent, nextAttendee, nextWaitlist>>

\* POST /attendees/:id/cancel
Cancel(id, token) ==
  /\ IF CancelResult(id, token) = "ok"
     THEN /\ attendees' = MarkCancelled(attendees, id)
          /\ LET next == NextInLine(waitlist, AttendeeById(attendees, id).event_id) IN
               IF next = {} THEN waitlist' = waitlist
               ELSE \E w \in next : waitlist' = MarkNotified(waitlist, w.id)
     ELSE UNCHANGED <<attendees, waitlist>>
  /\ UNCHANGED <<events, inflight, now, nextEvent, nextAttendee, nextWaitlist>>

\* POST /attendees/:id/cancel when a statement of the promotion block throws, after
\* the UPDATE of the attendee: either the SELECT of the next in line throws and the
\* waitlist is as it was, or the entry is marked and the saveDb() after it throws
\* (fs.writeFileSync), which leaves the mark in the open database.
CancelPromotionFails(id, token) ==
  /\ CancelResult(id, token) = "ok"
  /\ attendees' = MarkCancelled(attendees, id)
  /\ LET next == NextInLine(waitlist, AttendeeById(attendees, id).event_id) IN
       \/ waitlist' = waitlist
       \/ \E w \in next : waitlist' = MarkNotified(waitlist, w.id)
  /\ UNCHANGED <<events, inflight, now, nextEvent, nextAttendee, nextWaitlist>>

\* POST /attendees/:id/checkin
CheckIn(id) ==
  /\ IF CheckInResult(id) = "ok"
     THEN attendees' = {IF a.id = id THEN CheckedIn(a, now) ELSE a : a \in attendees}
     ELSE attendees' = attendees
  /\ UNCHANGED <<events, waitlist, inflight, now, nextEvent, nextAttendee, nextWaitlist>>

\* The attendees table the QR handler leaves: on success
\* UPDATE attendees SET checked_in = 1, checked_in_at = ? WHERE id = ? unless the
\* row is checked in already; on an error answer nothing is written.
QrWrite(p) ==
  IF QrResult(p) = "ok"
  THEN {IF a.id = p.attendeeId THEN CheckedIn(a, now) ELSE a : a \in attendees}
  ELSE attendees

\* POST /checkin/qr
CheckInQr(p) ==
  /\ attendees' = QrWrite(p)
  /\ UNCHANGED <<events, waitlist, inflight, now, nextEvent, nextAttendee, nextWaitlist>>

\* POST /events/:slug/waitlist
JoinWaitlist(slug, email) ==
  /\ IF WaitlistResult(slug, email) = "ok"
     THEN /\ nextWaitlist <= MaxWaitlist
          /\ waitlist' = waitlist \cup {NewWaitlistEntry(nextWaitlist, slug, email, now)}
          /\ nextWaitlist' = nextWaitlist + 1
     ELSE UNCHANGED <<waitlist, nextWaitlist>>
  /\ UNCHANGED <<events, attendees, inflight, now, nextEvent, nextAttendee>>

\* POST /events
CreateEvent(user, capacity, status) ==
  /\ IF user = NoUser
     THEN UNCHANGED <<events, nextEvent>>
     ELSE /\ nextEvent <= MaxEvents
          /\ events' = [events EXCEPT ![nextEvent] =
                          [capacity |-> CapacityOrDefault(capacity),
                           status |-> StatusOrDefault(status), user_id |-> user]]
          /\ nextEvent' = nextEvent + 1
  /\ UNCHANGED <<attendees, waitlist, inflight, now, nextAttendee, nextWaitlist>>

\* POST /events of the first router: no session is asked for and the row gets no
\* user_id (an event without owner).
CreateEventLegacy(capacity) ==
  /\ nextEvent <= MaxEvents
  /\ events' = [events EXCEPT ![nextEvent] =
                  [capacity |-> CapacityOrDefault(capacity),
                   status |-> LegacyStatus, user_id |-> NoUser]]
  /\ nextEvent' = nextEvent + 1
  /\ UNCHANGED <<attendees, waitlist, inflight, now, nextAttendee, nextWaitlist>>

\* PUT /events/:slug
UpdateEvent(slug, user, capacity, status) ==
  /\ IF OwnerResult(slug, user) = "ok"
     THEN events' = [events EXCEPT ![slug] =
                       [capacity |-> IF capacity = 0 THEN @.capacity ELSE capacity,
                        status |-> IF status = "" THEN @.status ELSE status,
                        user_id |-> @.user_id]]
     ELSE events' = events
  /\ UNCHANGED <<attendees, waitlist, inflight, now, nextEvent, nextAttendee, nextWaitlist>>

\* DELETE /events/:slug
DeleteEvent(slug, user) ==
  /\ IF OwnerResult(slug, user) = "ok"
     THEN /\ waitlist' = {w \in waitlist : w.event_id # slug}
          /\ attendees' = {a \in attendees : a.event_id # slug}
          /\ events' = [events EXCEPT ![slug] = NoEvent]
     ELSE UNCHANGED <<events, attendees, waitlist>>
  /\ UNCHANGED <<inflight, now, nextEvent, nextAttendee, nextWaitlist>>

Requesters == Users \cup {NoUser}

\* The accounts that create events; the other account is the non-owner.
Organizers == {"u1"}

\* Spec: overlapping register requests around one event (the first event created).
\* Registrations use one name and waitlist joins one email, so that the
\* interleavings of the register handler fit the state budget.
Next ==
  \/ Tick
  \/ \E slug \in EventIds, email \in Emails : RegisterBegin(slug, "n1", email)
  \/ \E r \in BagToSet(inflight) : RegisterFinish(r)
  \/ \E id \in AttendeeIds, token \in 0..MaxAttendees : Cancel(id, token)
  \/ \E id \in AttendeeIds : CheckIn(id)
  \/ \E p \in Payloads : CheckInQr(p)
  \/ \E slug \in EventIds : JoinWaitlist(slug, "a@x")
  \/ \E user \in Organizers \cup {NoUser}, capacity \in 0..MaxCapacity, status \in {"", "draft"} :
       nextEvent = 1 /\ CreateEvent(user, capacity, status)
  \/ \E slug \in EventIds, user \in Requesters, capacity \in 0..MaxCapacity,
        status \in Statuses \cup {""} : UpdateEvent(slug, user, capacity, status)
  \/ \E slug \in EventIds, user \in Requesters : DeleteEvent(slug, user)

Spec == Init /\ [][Next]_vars

\* SpecWaitlist: the waitlists of two events, every email; registrations use one
\* name and one email (an attendee to cancel is all that promotion needs).
NextWaitlist ==
  \/ Tick
  \/ \E slug \in EventIds : RegisterBegin(slug, "n1", "a@x")
  \/ \E r \in BagToSet(inflight) : RegisterFinish(r)
  \/ \E id \in AttendeeIds, token \in 0..MaxAttendees : Cancel(id, token)
  \/ CheckIn(1)
  \/ \E p \in {q \in Payloads : q.attendeeId <= 1} : CheckInQr(p)
  \/ \E slug \in EventIds, email \in Emails : JoinWaitlist(slug, email)
  \/ \E user \in Organizers \cup {NoUser} : CreateEvent(user, 1, "")
  \/ \E slug \in EventIds, user \in Requesters, status \in {"draft", "published"} :
       UpdateEvent(slug, user, 0, status)
  \/ \E slug \in EventIds, user \in Requesters : DeleteEvent(slug, user)

SpecWaitlist == Init /\ [][NextWaitlist]_vars

\* SpecDashboard: a database that the first router writes too (events without
\* owner, attendees without cancel_token, check-ins without timestamp), two events;
\* one name, one email per register handler, and the waitlist, the status edit and
\* the deletion at the first event only.
NextDashboard ==
  \/ Tick
  \/ \E slug \in EventIds : RegisterBegin(slug, "n1", "a@x")
  \/ \E r \in BagToSet(inflight) : RegisterFinish(r)
  \/ \E slug \in EventIds : LegacyRegisterBegin(slug, "n1", "b@x")
  \/ \E r \in BagToSet(inflight) : LegacyRegisterFinish(r)
  \/ \E id \in AttendeeIds : \E token \in {id, Null} : Cancel(id, token)
  \/ \E id \in AttendeeIds : CheckIn(id)
  \/ \E id \in AttendeeIds : LegacyCheckIn(id)
  \/ \E p \in {q \in Payloads : q.eventId = 0} : CheckInQr(p)
  \/ \E p \in {q \in Payloads : q.eventId = 0} : LegacyCheckInQr(p)
  \/ JoinWaitlist(1, "a@x")
  \/ \E user \in Organizers \cup {NoUser} : CreateEvent(user, 0, "")
  \/ CreateEventLegacy(0)
  \/ \E user \in Requesters : UpdateEvent(1, user, 0, "draft")
  \/ \E user \in Requesters : DeleteEvent(1, user)

SpecDashboard == Init /\ [][NextDashboard]_vars

\* SpecFaults: one event of capacity 1 and a promotion block that can throw; one
\* name and one email to register, object payloads, status edits only.
NextFaults ==
  \/ Tick
  \/ \E slug \in EventIds : RegisterBegin(slug, "n1", "a@x")
  \/ \E r \in BagToSet(inflight) : RegisterFinish(r)
  \/ \E id \in AttendeeIds, token \in 0..MaxAttendees : Cancel(id, token)
  \/ \E id \in AttendeeIds : CancelPromotionFails(id, id)
  \/ \E id \in AttendeeIds : CheckIn(id)
  \/ \E p \in {q \in Payloads : q.kind = "object" /\ q.eventId = 0} : CheckInQr(p)
  \/ \E slug \in EventIds, email \in Emails : JoinWaitlist(slug, email)
  \/ \E user \in Organizers : nextEvent = 1 /\ CreateEvent(user, 1, "")
  \/ \E slug \in EventIds, user \in Organizers, status \in {"draft", "published"} :
       UpdateEvent(slug, user, 0, status)
  \/ \E slug \in EventIds, user \in Organizers : DeleteEvent(slug, user)

SpecFaults == Init /\ [][NextFaults]_vars

\* ------------------------------------------------------------------ claims

EventOf(id) == AttendeeById(attendees, id).event_id

\* C1: a successful fresh (non-reactivating) register that no other request
\* overlaps (it resumes in a state where its checks still hold, the capacity it read
\* included) leaves at most capacity non-cancelled attendees at the event
\* registered for, whatever happened before it.
C1_FreshRegisterWithinCapacity ==
  [][\A r \in BagToSet(inflight) :
       (/\ r.kind = "insert"
        /\ ChecksStillHold(r)
        /\ RegisterFinish(r))
       => ActiveCount(attendees', r.event_id) <= events'[r.event_id].capacity]_vars

\* A second fresh registration has succeeded at an event of capacity 1 after the
\* first attendee cancelled: the event is full again with one cancelled record.
C1_Witness ==
  \E e \in EventIds :
    /\ events[e].capacity = 1
    /\ ActiveCount(attendees, e) = 1
    /\ Cardinality({a \in attendees : a.event_id = e}) = 2

\* C2: overlapping register requests (for different new emails) are serialized
\* between the capacity check and the insert, so every insert of a new email leaves
\* the event's non-cancelled count within the capacity its request checked.
C2_RegisterSerialized ==
  [][\A r \in BagToSet(inflight) :
       (/\ r.kind = "insert"
        /\ DupRows(attendees, r.event_id, r.email) = {}
        /\ RegisterFinish(r))
       => ActiveCount(attendees', r.event_id) <= r.capacity]_vars

\* C3: at most one non-cancelled attendee record per (event, email), also when
\* register requests overlap.
C3_UniqueActiveEmail ==
  \A a, b \in attendees :
    (a.event_id = b.event_id /\ a.email = b.email /\ ~a.cancelled /\ ~b.cancelled)
      => a.id = b.id

\* C4: while a registration of (event, email) stands (a record that is not
\* cancelled), every further register for that (event, email), with any name, is
\* answered DuplicateRegistration (the event taken as still published, which is
\* what the claim supposes); an error answer of register writes nothing.
C4_SecondRegisterIsDuplicate ==
  \A slug \in EventIds, name \in Names, email \in Emails :
    (/\ EventExists(slug)
     /\ events[slug].status = "published"
     /\ \E a \in attendees : a.event_id = slug /\ a.email = email /\ ~a.cancelled)
    => RegisterCheck(slug, name, email).result = "DuplicateRegistration"

\* C5: a register that reactivates a cancelled record (and that no other request
\* overlaps) leaves that record not cancelled, not checked in, with checked_in_at
\* unset, the new name and a QR payload made from the new name, whatever the
\* record's history.
C5_ReactivationResetsRecord ==
  [][\A r \in BagToSet(inflight) :
       (/\ r.kind = "reactivate"
        /\ ChecksStillHold(r)
        /\ RegisterFinish(r))
       => LET a == AttendeeById(attendees', r.id)
          IN  /\ ~a.cancelled
              /\ ~a.checked_in
              /\ a.checked_in_at = Null
              /\ a.name = r.name
              /\ a.qr_code = QrPayload(r.id, r.event_id, r.name, r.email)]_vars

\* C6: every attendee record has checked_in_at set exactly when checked_in is true.
C6_CheckedInAtIffCheckedIn ==
  \A a \in attendees : (a.checked_in_at # Null) <=> a.checked_in

\* C7: for a non-cancelled attendee that is checked in, a further check-in on
\* either path succeeds and writes nothing (checked_in stays true, checked_in_at
\* keeps the value of the first check-in).
C7_CheckInIdempotent ==
  \A a \in attendees :
    (~a.cancelled /\ a.checked_in)
      => /\ CheckInResult(a.id) = "ok"
         /\ \A p \in Payloads :
              (p.kind = "object" /\ p.attendeeId = a.id) => QrResult(p) = "ok"
         /\ CheckedIn(a, now) = a

\* C8: the QR check-in of an attendee whose cancelled flag is set is answered
\* RsvpCancelled (and, as every error answer of the handler, writes nothing).
C8_QrRejectsCancelled ==
  \A a \in attendees :
    a.cancelled
      => \A p \in Payloads :
           (p.kind = "object" /\ p.attendeeId = a.id) => QrResult(p) = "RsvpCancelled"

\* C9: a successful cancel at an event that has an unnotified waitlist entry sets
\* notified on exactly one entry, an oldest (smallest created_at) unnotified entry of
\* that event, and leaves every other entry of every event as it was.
C9_CancelNotifiesOldest ==
  [][\A id \in AttendeeIds, token \in 0..MaxAttendees :
       (/\ CancelResult(id, token) = "ok"
        /\ \E w \in waitlist : w.event_id = EventOf(id) /\ ~w.notified
        /\ Cancel(id, token))
       => \E w \in waitlist :
            /\ w.event_id = EventOf(id) /\ ~w.notified
            /\ \A v \in waitlist :
                 (v.event_id = EventOf(id) /\ ~v.notified) => w.created_at <= v.created_at
            /\ waitlist' = (waitlist \ {w}) \cup {[w EXCEPT !.notified = TRUE]}]_vars

\* A cancel at an event has notified the older of its two waitlist entries and not
\* the newer.
C9_Witness ==
  \E w, v \in waitlist :
    /\ w.event_id = v.event_id /\ w.created_at < v.created_at
    /\ w.notified /\ ~v.notified
    /\ \E a \in attendees : a.event_id = w.event_id /\ a.cancelled

\* A notified entry has every entry of its event with an earlier created_at notified.
FifoNotified(ws) ==
  \A w, v \in ws :
    (w.event_id = v.event_id /\ w.notified /\ v.created_at < w.created_at) => v.notified

\* C10: notification is first-in-first-out (a notified entry has every entry of its
\* event with an earlier created_at notified too) and an entry, once notified, is
\* never unnotified again.
C10_FifoAndMonotone ==
  [][/\ FifoNotified(waitlist')
     /\ \A w \in waitlist : w.notified => \A v \in waitlist' : v.id = w.id => v.notified]_vars

\* Two cancels have notified both entries of an event, the older and the newer.
C10_Witness ==
  \E w, v \in waitlist :
    /\ w.event_id = v.event_id /\ w.created_at < v.created_at
    /\ w.notified /\ v.notified

\* C11: cancel answers NotFound when no attendee has the id and InvalidToken when the
\* token differs from the stored cancel_token, and in both cases changes no
\* attendee and no waitlist entry; with the matching token it sets cancelled on that
\* attendee and leaves every field of every other attendee as it was.
C11_CancelErrorsAndEffect ==
  [][\A id \in AttendeeIds, token \in 0..MaxAttendees :
       IF \A a \in attendees : a.id # id
       THEN /\ CancelResult(id, token) = "NotFound"
            /\ Cancel(id, token) => UNCHANGED <<attendees, waitlist>>
       ELSE LET a == CHOOSE x \in attendees : x.id = id IN
         IF a.cancel_token # token
         THEN /\ CancelResult(id, token) = "InvalidToken"
              /\ Cancel(id, token) => UNCHANGED <<attendees, waitlist>>
         ELSE /\ CancelResult(id, token) = "ok"
              /\ Cancel(id, token)
                   => attendees' = (attendees \ {a}) \cup {[a EXCEPT !.cancelled = TRUE]}]_vars

\* One attendee of an event has been cancelled with its token while the other
\* attendee of the event stands.
C11_Witness ==
  \E a, b \in attendees :
    a.event_id = b.event_id /\ a.id # b.id /\ a.cancelled /\ ~b.cancelled

\* C12: register on an event whose status is cancelled or draft is answered
\* EventUnavailable for every name and email, also for an email whose record is
\* cancelled, and writes nothing: attendees and waitlist stay as they were and no
\* handler is left suspended to write later.
C12_UnavailableEventRejectsRegister ==
  [][\A slug \in EventIds :
       (EventExists(slug) /\ events[slug].status \in {"cancelled", "draft"})
         => \A name \in Names, email \in Emails :
              /\ RegisterCheck(slug, name, email).result = "EventUnavailable"
              /\ RegisterBegin(slug, name, email) => UNCHANGED <<attendees, waitlist, inflight>>]_vars

\* A draft or cancelled event holds a cancelled record, whose email a register
\* would reactivate on a published event.
C12_Witness ==
  \E a \in attendees :
    /\ a.cancelled /\ EventExists(a.event_id)
    /\ events[a.event_id].status \in {"cancelled", "draft"}
    /\ inflight = EmptyBag


\* C13: joinWaitlist for an email the event's waitlist already holds is answered
\* AlreadyWaitlisted and changes nothing, so after every step the waitlist holds at
\* most one entry per (event, email).
C13_WaitlistUniqueEmail ==
  [][/\ \A slug \in EventIds, email \in Emails :
          (\E w \in waitlist : w.event_id = slug /\ w.email = email)
            => /\ WaitlistResult(slug, email) = "AlreadyWaitlisted"
               /\ JoinWaitlist(slug, email) => UNCHANGED <<waitlist, nextWaitlist>>
     /\ \A w, v \in waitlist' :
          (w.event_id = v.event_id /\ w.email = v.email) => w.id = v.id]_vars

\* The same email waits at both events, and the waitlist is at its bound: every
\* further join of that email is a repeated one.
C13_Witness ==
  \E w, v \in waitlist :
    w.email = v.email /\ w.event_id # v.event_id /\ nextWaitlist > MaxWaitlist

\* C14: the position answered to a successful joinWaitlist is one more than the
\* number of entries the event's waitlist held before it, and no step other than the
\* deletion of the event removes an entry: the Nth successful join of an event is
\* answered N, whatever registrations, check-ins and cancels came in between.
C14_PositionIsN ==
  [][/\ \A slug \in EventIds, email \in Emails :
          (WaitlistResult(slug, email) = "ok" /\ JoinWaitlist(slug, email))
            => LET w == CHOOSE v \in waitlist' : v.id = nextWaitlist
               IN  Position(waitlist', slug, w)
                     = Cardinality({v \in waitlist : v.event_id = slug}) + 1
     /\ \A w \in waitlist :
          EventExists(w.event_id)' => \E v \in waitlist' : v.id = w.id]_vars

\* The second join of an event has been answered, in the same clock tick as the
\* first, after an attendee of the event cancelled.
C14_Witness ==
  \E w, v \in waitlist :
    /\ w.id # v.id /\ w.event_id = v.event_id /\ w.created_at = v.created_at
    /\ \E a \in attendees : a.event_id = w.event_id /\ a.cancelled


\* C15: for every event the dashboard lists exactly the event's non-cancelled
\* attendees, total is their number, and the checked-in count is the number of
\* attendees that are non-cancelled and checked in.
C15_DashboardExcludesCancelled ==
  \A slug \in EventIds :
    EventExists(slug) =>
      LET mine == {a \in attendees : a.event_id = slug} IN
        /\ {r.id : r \in Dashboard(slug).attendees} = {a.id : a \in mine \ {x \in mine : x.cancelled}}
        /\ \A r \in Dashboard(slug).attendees :
             \E a \in mine : /\ ~a.cancelled /\ a.id = r.id /\ a.name = r.name
                              /\ a.email = r.email /\ a.checked_in = r.checked_in
                              /\ a.checked_in_at = r.checked_in_at
        /\ Dashboard(slug).total = Cardinality({a \in mine : ~a.cancelled})
        /\ Dashboard(slug).checked_in = Cardinality({a \in mine : ~a.cancelled /\ a.checked_in})

\* An event holds a cancelled attendee that is checked in next to a standing
\* attendee that is checked in.
C15_Witness ==
  \E a, b \in attendees :
    /\ a.event_id = b.event_id /\ EventExists(a.event_id)
    /\ a.cancelled /\ a.checked_in /\ ~b.cancelled /\ b.checked_in

\* C16: the dashboard is granted exactly when the requester is the event's owner
\* or the event has no owner, whether the requester is logged in or not.
C16_DashboardGrantedToOwnerOrOwnerless ==
  \A slug \in EventIds, user \in Requesters :
    EventExists(slug) =>
      ((DashboardResult(slug, user) = "ok")
         <=> (events[slug].user_id = NoUser \/ events[slug].user_id = user))


\* C17: on a published event of capacity 1, register A succeeds; with A registered,
\* register B is answered CapacityExceeded and joinWaitlist B is answered position 1;
\* then cancel A with its token leaves A's record cancelled, B's waitlist entry
\* notified, no attendee record for B and no non-cancelled attendee at the event.
C17_EndToEndTrace ==
  [][\A e \in EventIds, A \in Emails, B \in Emails :
       (A # B /\ EventExists(e) /\ events[e].status = "published" /\ events[e].capacity = 1)
       => LET mine == {a \in attendees : a.event_id = e}
              queue == {w \in waitlist : w.event_id = e}
          IN
          /\ mine = {}
               => /\ \A name \in Names :
                       /\ RegisterCheck(e, name, A).result = "suspend"
                       /\ RegisterCheck(e, name, A).req.kind = "insert"
                  /\ \A r \in BagToSet(inflight) :
                       (r.kind = "insert" /\ r.event_id = e /\ r.email = A /\ RegisterFinish(r))
                         => \E a \in attendees' : a.event_id = e /\ a.email = A /\ ~a.cancelled
          /\ (Cardinality(mine) = 1 /\ \A a \in mine : a.email = A /\ ~a.cancelled)
               => /\ \A name \in Names : RegisterCheck(e, name, B).result = "CapacityExceeded"
                  /\ (queue = {} /\ JoinWaitlist(e, B))
                       => \E w \in waitlist' :
                            /\ w.event_id = e /\ w.email = B /\ ~w.notified
                            /\ Position(waitlist', e, w) = 1
                  /\ \A a \in mine :
                       (/\ Cardinality(queue) = 1
                        /\ \A w \in queue : w.email = B /\ ~w.notified
                        /\ Cancel(a.id, a.cancel_token))
                       => /\ \E x \in attendees' : x.id = a.id /\ x.cancelled
                          /\ \E w \in waitlist' : w.event_id = e /\ w.email = B /\ w.notified
                          /\ \A x \in attendees' : x.event_id = e => x.email # B
                          /\ ActiveCount(attendees', e) = 0]_vars

\* The end of the trace: A's record cancelled, B's entry notified, B not an
\* attendee, nobody registered.
C17_Witness ==
  \E e \in EventIds, a \in attendees, w \in waitlist :
    /\ EventExists(e) /\ events[e].status = "published" /\ events[e].capacity = 1
    /\ {x \in attendees : x.event_id = e} = {a} /\ a.cancelled
    /\ {v \in waitlist : v.event_id = e} = {w} /\ w.notified /\ w.email # a.email
    /\ ActiveCount(attendees, e) = 0


\* C18: no step changes the cancel_token of an attendee record that stays, and the
\* token the record had before the step still cancels it after the step.
C18_CancelTokenImmutable ==
  [][\A a \in attendees, b \in attendees' :
       a.id = b.id
         => /\ b.cancel_token = a.cancel_token
            /\ CancelResult(a.id, a.cancel_token)' = "ok"]_vars

\* A record that was checked in, cancelled, registered again and cancelled again
\* with its token: cancelled, not checked in, and with the time of its check-in.
C18_Witness ==
  \E a \in attendees :
    a.cancelled /\ ~a.checked_in /\ a.checked_in_at # Null /\ a.cancel_token = a.id

\* C19: an attendee record disappears only in a step that deletes its event, and a
\* step that deletes an event removes exactly the attendees and the waitlist
\* entries of that event.
C19_RemovedOnlyByEventDeletion ==
  [][/\ \A a \in attendees :
          (\A b \in attendees' : b.id # a.id)
            => (EventExists(a.event_id) /\ ~EventExists(a.event_id)')
     /\ \A slug \in EventIds :
          (EventExists(slug) /\ ~EventExists(slug)')
            => /\ attendees' = {a \in attendees : a.event_id # slug}
               /\ waitlist' = {w \in waitlist : w.event_id # slug}]_vars

\* The first event was deleted with its attendee and its waitlist entry; the
\* attendee and the waitlist entry of the second event are still there.
C19_Witness ==
  /\ nextEvent > MaxEvents /\ ~EventExists(1) /\ EventExists(2)
  /\ nextAttendee > MaxAttendees /\ nextWaitlist > MaxWaitlist
  /\ \E a \in attendees : attendees = {a} /\ a.event_id = 2 /\ a.cancelled /\ a.checked_in
  /\ \E w \in waitlist : waitlist = {w} /\ w.event_id = 2 /\ w.notified


\* C20: the QR check-in is answered InvalidPayload for every payload that is not an
\* object with an attendeeId (text that does not parse, the value null, another
\* scalar, an object without attendeeId), and NotFound for an attendeeId that no
\* attendee has.
C20_MalformedPayloadIsInvalid ==
  \A p \in Payloads :
    /\ (p.kind # "object" \/ p.attendeeId = 0) => QrResult(p) = "InvalidPayload"
    /\ (p.kind = "object" /\ p.attendeeId # 0 /\ ~HasAttendee(attendees, p.attendeeId))
         => QrResult(p) = "NotFound"


\* C21: when the promotion block fails after cancel has set the cancelled flag, the
\* cancel request is still answered with success and the attendee stays cancelled.
C21_PromotionFailureKeepsCancelSuccess ==
  [][\A id \in AttendeeIds, token \in 0..MaxAttendees :
       CancelPromotionFails(id, token)
         => /\ CancelAnswer(id, token, TRUE) = "ok"
            /\ \E a \in attendees' : a.id = id /\ a.cancelled]_vars

\* C22: a cancel creates no attendee record, reactivates none and removes no
\* waitlist entry: the set of attendee ids, the set of waitlist entry ids and the
\* waitlist count the dashboard reports for every event are the same after it.
C22_PromotionAdvisoryOnly ==
  [][\A id \in AttendeeIds, token \in 0..MaxAttendees :
       Cancel(id, token)
         => /\ {a.id : a \in attendees'} = {a.id : a \in attendees}
            /\ \A a \in attendees, b \in attendees' :
                 (a.id = b.id /\ a.cancelled) => b.cancelled
            /\ {w.id : w \in waitlist'} = {w.id : w \in waitlist}
            /\ \A slug \in EventIds :
                 WaitlistCount(waitlist', slug) = Dashboard(slug).waitlist_count]_vars

\* A cancel has notified a waitlist entry whose email has no attendee record at the
\* event: the notified person was not registered by the promotion.
C22_Witness ==
  \E w \in waitlist :
    /\ w.notified
    /\ \E a \in attendees : a.event_id = w.event_id /\ a.cancelled
    /\ \A a \in attendees : a.event_id = w.event_id => a.email # w.email


\* C23: a record whose checked_in is true keeps it true in every step, overlapping
\* ones included, except the write of a register that reactivates that record.
C23_CheckedInStaysTrue ==
  [][\A a \in attendees :
       a.checked_in
         => \A b \in attendees' :
              (b.id = a.id /\ ~b.checked_in)
                => \E r \in BagToSet(inflight) :
                     r.kind = "reactivate" /\ r.id = a.id /\ RegisterFinish(r)]_vars

\* A checked-in record was cancelled and is still checked in, while the register
\* that will reactivate it is suspended.
C23_Witness ==
  \E a \in attendees :
    /\ a.checked_in /\ a.cancelled
    /\ \E r \in BagToSet(inflight) : r.kind = "reactivate" /\ r.id = a.id

\* C24: the manual check-in of a cancelled attendee succeeds and sets checked_in and
\* checked_in_at, while the QR check-in of the same attendee is rejected.
C24_ManualCheckInIgnoresCancelled ==
  [][\A a \in attendees :
       a.cancelled
         => /\ CheckInResult(a.id) = "ok"
            /\ \A p \in Payloads :
                 (p.kind = "object" /\ p.attendeeId = a.id) => QrResult(p) # "ok"
            /\ (~a.checked_in /\ CheckIn(a.id))
                 => \E b \in attendees' :
                      b.id = a.id /\ b.cancelled /\ b.checked_in /\ b.checked_in_at = now]_vars

\* The only attendee, never reactivated, is cancelled and checked in, and its QR
\* check-in is answered RsvpCancelled.
C24_Witness ==
  \E a \in attendees :
    /\ attendees = {a} /\ nextAttendee = 2 /\ inflight = EmptyBag
    /\ a.cancelled /\ a.checked_in /\ a.checked_in_at # Null
    /\ QrResult([kind |-> "object", attendeeId |-> a.id, eventId |-> a.event_id]) = "RsvpCancelled"


\* C25: a register for an email whose record is cancelled is a reactivation and
\* succeeds whatever the event's non-cancelled count is; and a step that takes an
\* event from count <= capacity to count > capacity is the write of such a
\* reactivation, unless it is the write of a fresh register that another request
\* overlapped (its checks no longer hold) or an edit of the capacity.
C25_ReactivationSkipsCapacity ==
  [][\A slug \in EventIds :
       EventExists(slug) =>
         /\ \A name \in Names, email \in Emails :
              (/\ events[slug].status = "published"
               /\ DupRows(attendees, slug, email) # {}
               /\ FirstRow(DupRows(attendees, slug, email)).cancelled)
              => /\ RegisterCheck(slug, name, email).result = "suspend"
                 /\ RegisterCheck(slug, name, email).req.kind = "reactivate"
         /\ \A r \in BagToSet(inflight) :
              (r.kind = "reactivate" /\ r.event_id = slug /\ ChecksStillHold(r) /\ RegisterFinish(r))
                => \E b \in attendees' : b.id = r.id /\ ~b.cancelled
         /\ (/\ ActiveCount(attendees, slug) <= events[slug].capacity
             /\ EventExists(slug)'
             /\ events'[slug].capacity = events[slug].capacity
             /\ ActiveCount(attendees', slug) > events'[slug].capacity)
            => \E r \in BagToSet(inflight) :
                 /\ r.event_id = slug
                 /\ RegisterFinish(r)
                 /\ r.kind = "reactivate" \/ ~ChecksStillHold(r)]_vars

\* An event of capacity 1 holds two non-cancelled attendees, one of them a
\* reactivated record (not checked in, with the time of its earlier check-in).
C25_Witness ==
  \E e \in EventIds :
    /\ EventExists(e) /\ events[e].capacity = 1 /\ ActiveCount(attendees, e) = 2
    /\ \E a \in attendees :
         a.event_id = e /\ ~a.cancelled /\ ~a.checked_in /\ a.checked_in_at # Null

\* C26: joinWaitlist is answered with success for every email the event's waitlist
\* does not hold, whatever the event's non-cancelled count is, adds the entry, and
\* changes no attendee record.
C26_JoinWaitlistSkipsCapacity ==
  [][\A slug \in EventIds, email \in Emails :
       /\ (EventExists(slug) /\ \A w \in waitlist : ~(w.event_id = slug /\ w.email = email))
            => /\ WaitlistResult(slug, email) = "ok"
               /\ JoinWaitlist(slug, email)
                    => \E w \in waitlist' : w.event_id = slug /\ w.email = email
       /\ JoinWaitlist(slug, email) => attendees' = attendees]_vars

\* An event of capacity 1 at which nobody ever registered has a waitlist entry.
C26_Witness ==
  \E w \in waitlist :
    /\ EventExists(w.event_id) /\ events[w.event_id].capacity = 1
    /\ nextAttendee = 1 /\ attendees = {}


\* C27: a cancel with the valid token on an attendee that is already cancelled marks
\* no further waitlist entry as notified (so that the notified entries of an event
\* never outnumber the cancellations of its attendees).
C27_RepeatedCancelNotifiesNobody ==
  [][\A a \in attendees :
       (a.cancelled /\ Cancel(a.id, a.cancel_token)) => waitlist' = waitlist]_vars

\* C28: every attendee record and every waitlist entry references an event that
\* exists, also when an event is deleted while a register for it is suspended.
C28_ReferencedEventExists ==
  /\ \A a \in attendees : EventExists(a.event_id)
  /\ \A w \in waitlist : EventExists(w.event_id)

\* C29: an event update on an event whose non-cancelled count is within its
\* capacity leaves the count within the capacity.
C29_UpdateKeepsCapacityAboveCount ==
  [][\A slug \in EventIds, user \in Requesters, capacity \in 0..MaxCapacity,
        status \in Statuses \cup {""} :
       (/\ EventExists(slug)
        /\ ActiveCount(attendees, slug) <= events[slug].capacity
        /\ UpdateEvent(slug, user, capacity, status))
       => ActiveCount(attendees', slug) <= events'[slug].capacity]_vars

\* C30: every record with checked_in true has checked_in_at set, and for every
\* event the dashboard's list of check-in timestamps has as many entries as its
\* checked-in count.
C30_CheckedInHasTimestamp ==
  /\ \A a \in attendees : a.checked_in => a.checked_in_at # Null
  /\ \A slug \in EventIds :
       EventExists(slug)
         => BagCardinality(Dashboard(slug).checkin_times) = Dashboard(slug).checked_in

\* Two standing attendees of an event were checked in at the same time.
C30_Witness ==
  \E a, b \in attendees :
    /\ a.id # b.id /\ a.event_id = b.event_id /\ EventExists(a.event_id)
    /\ ~a.cancelled /\ ~b.cancelled /\ a.checked_in /\ b.checked_in
    /\ a.checked_in_at = b.checked_in_at /\ a.checked_in_at # Null


\* The object payloads that carry one attendeeId: every eventId, name and email.
PayloadsOf(id) ==
  [kind : {"object"}, attendeeId : {id}, eventId : 0..MaxEvents,
   name : Names, email : Emails]

\* C31: the answer and the state change of the QR check-in depend on the payload's
\* attendeeId alone: in every state, every payload with a given attendeeId, whatever
\* its eventId, name and email, gets the answer and leaves the attendees table that
\* the payload with that attendeeId and no eventId does.
C31_QrDependsOnAttendeeIdOnly ==
  \A id \in AttendeeIds :
    LET q == [kind |-> "object", attendeeId |-> id, eventId |-> 0,
              name |-> "n1", email |-> "a@x"]
    IN  \A p \in PayloadsOf(id) :
          QrResult(p) = QrResult(q) /\ QrWrite(p) = QrWrite(q)

\* A standing attendee is checked in, and a payload with its attendeeId and the
\* name, email and event of somebody else is answered with success.
C31_Witness ==
  \E a \in attendees :
    /\ a.checked_in /\ ~a.cancelled /\ EventExists(a.event_id)
    /\ \E p \in PayloadsOf(a.id) :
         /\ p.eventId # a.event_id /\ p.name # a.name /\ p.email # a.email
         /\ QrResult(p) = "ok"


====
